---- MODULE Spec2Model ----
(***************************************************************************)
(* Presence distribution engine: the presence cache, the per-user watch    *)
(* channel registry (watchers), the per-IP connection counter and the      *)
(* WebSocket session (ws_route / ws_handler / ws_loop), together with the  *)
(* Discord presence_update handler and GET /v1/{user_id}.                  *)
(*                                                                         *)
(* Every DashMap operation is one atomic step (it runs under the shard     *)
(* lock).  A dashmap Ref that the code keeps alive across further steps is *)
(* modelled as a held read lock that blocks writers of the same shard.     *)
(***************************************************************************)
EXTENDS Integers, Sequences, FiniteSets, TLC

\* ---------------------------------------------------------------- bounds
NumSessions == 2
MaxEvents == 2
MaxTicks == 1
MaxIdLen == 3
MaxFailures == 8
MaxOps == 3

\* ------------------------------------------------------ program constants
PRESENCE_TTL_MINUTES == 5
PRESENCE_TTL_MS == PRESENCE_TTL_MINUTES * 60 * 1000
MAX_CONNECTIONS_PER_IP == 10
CACHE_TTL_SECS == 300

\* connection slots; a slot whose session has ended takes the next connection
Sessions == 1..NumSessions
\* a live channel has its Sender in the map or a Receiver in a session
CellIds == 1..NumSessions

Digits == {"0", "1", "2", "3", "4", "5", "6", "7", "8", "9"}

\* user ids are strings, modelled as sequences of characters
U42 == <<"4", "2">>
Uabc == <<"a", "b", "c">>
RequestIds == {U42, Uabc}
\* the user the upstream gateway reports presence for
PubUser == U42
\* the client address (cf-connecting-ip, or the loopback default)
ClientIp == "127.0.0.1"

\* identifiers to validate: the empty string, digits with leading zeros, letters, a
\* sign, 20 and 21 digits, and every string over IdAlphabet up to MaxIdLen characters
Repeat(c, n) == [i \in 1..n |-> c]
IdAlphabet == {"0", "a"}
SampleIds ==
    {<<>>, <<"1", "2", "3">>, <<"0", "0", "0", "0", "9">>, Uabc, <<"-", "1">>,
     Repeat("7", 20), Repeat("7", 21)}
        \cup UNION {[1..n -> IdAlphabet] : n \in 1..MaxIdLen}

\* the users Cache is called for
StoreUsers == {U42, <<"7">>}

\* Option<PresenceData>::None; published records have seq >= 1
NoRecord == [seq |-> 0, ts |-> 0]
\* no Cache::get has returned since the last write
NoRet == [user |-> <<"-">>, value |-> NoRecord, at |-> 0]
\* a session without a receiver
NoRx == [cell |-> 0, version |-> 0]

\* the clock advances by a whole TTL or by one millisecond more
TickSteps == {PRESENCE_TTL_MS, PRESENCE_TTL_MS + 1}
WsMessages == {"close", "ping", "other", "error", "end"}

VARIABLES
    now,          \* chrono::Utc::now().timestamp_millis()
    ticks,        \* number of clock advances so far
    cache,        \* PresenceCache: user id -> PresenceData
    watchers,     \* UserWatchers: user id -> watch::Sender (a cell id)
    cells,        \* shared state of each live watch channel, by cell id
    connections,  \* ConnectionCounter: ip -> usize
    pc,           \* position of each session
    uid,          \* user id each session asked for
    rx,           \* each session's watch::Receiver
    connGuard,    \* sessions whose ConnectionGuard is alive
    watcherGuard, \* sessions whose WatcherGuard is alive
    got,          \* seq of the last record a session in ws_loop read from its receiver
    pushed,       \* seqs of the text frames a session has sent on its socket so far
    cause,        \* why each session left (or never entered) the loop
    ppc,          \* position of presence_update
    prec,         \* the PresenceData presence_update built
    events,       \* upstream presence events received so far
    inserted,     \* highest seq ever inserted into the presence cache
    gpc,          \* position of get_presence_handler
    resp,         \* last response of get_presence_handler
    bg,           \* ConnectionGuards held by sessions of ClientIp watching other users
    cpc,          \* position of start_discord in its loop
    attempt,      \* start_discord's `attempt`
    backoff_secs, \* start_discord's `backoff_secs` of the last backoff
    streak,       \* connection failures since the last period of successful connection
    redisClient,  \* REDIS_CLIENT: "unset", or initialised to "none" or "some"
    memory,       \* Cache.memory: user id -> PresenceData
    remote,       \* the remote tier: key -> [json, exp]
    hist,         \* the Cache::set and Cache::remove calls made so far, in order
    ret           \* what the last Cache::get since the last write returned, and when

vars == <<now, ticks, cache, watchers, cells, connections, pc, uid, rx, connGuard,
          watcherGuard, got, pushed, cause, ppc, prec, events, inserted, gpc, resp, bg,
          cpc, attempt, backoff_secs, streak, redisClient, memory, remote, hist, ret>>

sessionVars == <<pc, uid, rx, connGuard, watcherGuard, got, pushed, cause>>
pubVars == <<ppc, prec, events, inserted>>
getVars == <<gpc, resp>>
clockVars == <<now, ticks>>
connVars == <<cpc, attempt, backoff_secs, streak>>
storeVars == <<redisClient, memory, remote, hist, ret>>

\* ------------------------------------------------------------ DashMap ops
Has(m, k) == k \in DOMAIN m
Insert(m, k, v) == [x \in (DOMAIN m) \cup {k} |-> IF x = k THEN v ELSE m[x]]
Remove(m, k) == [x \in (DOMAIN m) \ {k} |-> m[x]]
EmptyMap == [x \in {} |-> 0]

\* ------------------------------------------------------------- pure code
is_presence_stale(presence) == now - presence.ts > PRESENCE_TTL_MS

validate_user_id(user_id) ==
    Len(user_id) <= 20 /\ \A i \in 1..Len(user_id) : user_id[i] \in Digits

\* u32::saturating_add(1): `attempt` is at most MaxFailures here, so it never
\* reaches u32::MAX, where the addition would saturate
saturating_add_1(n) == n + 1

Min(a, b) == IF a <= b THEN a ELSE b

\* 2_u64.saturating_pow(attempt.min(6)).min(60): the exponent is at most 6, so the
\* power never saturates
backoff(att) == Min(2 ^ Min(att, 6), 60)

\* format!("presence:{}", user_id)
Key(user_id) == <<"presence:">> \o user_id

\* serde_json::to_string(data) and serde_json::from_str(json) of a PresenceData
to_string(data) == <<"{", data.seq, data.ts, "}">>
from_str(json) ==
    IF Len(json) = 4 /\ json[1] = "{" /\ json[4] = "}"
    THEN [ok |-> TRUE, data |-> [seq |-> json[2], ts |-> json[3]]]
    ELSE [ok |-> FALSE, data |-> NoRecord]

\* mutant: the limit test is `>` instead of `>=`
try_acquire_off_by_one(conns, ip) ==
    LET entry == IF Has(conns, ip) THEN conns ELSE Insert(conns, ip, 0)
    IN  IF entry[ip] > MAX_CONNECTIONS_PER_IP
        THEN [guard |-> FALSE, conns |-> conns]
        ELSE [guard |-> TRUE, conns |-> [entry EXCEPT ![ip] = @ + 1]]

\* mutant: the counter is incremented before the limit test and not restored on refusal
try_acquire_increment_first(conns, ip) ==
    LET entry == IF Has(conns, ip) THEN conns ELSE Insert(conns, ip, 0)
        bumped == [entry EXCEPT ![ip] = @ + 1]
    IN  IF bumped[ip] > MAX_CONNECTIONS_PER_IP
        THEN [guard |-> FALSE, conns |-> bumped]
        ELSE [guard |-> TRUE, conns |-> bumped]

\* try_acquire_connection: the counter map afterwards and whether a guard is returned
try_acquire_connection(conns, ip) ==
    LET entry == IF Has(conns, ip) THEN conns ELSE Insert(conns, ip, 0)
    IN  IF entry[ip] >= MAX_CONNECTIONS_PER_IP
        THEN [guard |-> FALSE, conns |-> conns]
        ELSE [guard |-> TRUE, conns |-> [entry EXCEPT ![ip] = @ + 1]]

\* mutant: the entry is decremented but never removed
ConnectionGuard_drop_keeps_entry(conns, ip) ==
    IF Has(conns, ip) THEN [conns EXCEPT ![ip] = @ - 1] ELSE conns

\* ConnectionGuard::drop
ConnectionGuard_drop(conns, ip) ==
    IF Has(conns, ip)
    THEN IF conns[ip] - 1 = 0 THEN Remove(conns, ip) ELSE [conns EXCEPT ![ip] = @ - 1]
    ELSE conns

\* ----------------------------------------------------- tokio::sync::watch
\* watch::channel(None).0
\* `last` is history: the seq of the last record sent on the channel
NewCell == [value |-> NoRecord, version |-> 0, rxCount |-> 0, closed |-> FALSE, last |-> 0]

\* the id given to a newly created channel
FreshCell(cs) == CHOOSE c \in CellIds \ DOMAIN cs : \A d \in CellIds \ DOMAIN cs : c <= d

\* the Arc'd shared state is freed with its last handle
Live(cs) == [c \in {d \in DOMAIN cs : ~(cs[d].closed /\ cs[d].rxCount = 0)} |-> cs[c]]

\* mutant: a value that is already in the channel is kept, only the version moves
Sender_send_keeps_first(cell, value) ==
    IF cell.rxCount = 0
    THEN [ok |-> FALSE, cell |-> cell]
    ELSE [ok |-> TRUE,
          cell |-> [cell EXCEPT !.value = IF @ = NoRecord THEN value ELSE @,
                                !.version = @ + 1, !.last = value.seq]]

\* Sender::send: fails when there is no receiver, else replaces the value
Sender_send(cell, value) ==
    IF cell.rxCount = 0
    THEN [ok |-> FALSE, cell |-> cell]
    ELSE [ok |-> TRUE,
          cell |-> [cell EXCEPT !.value = value, !.version = @ + 1, !.last = value.seq]]

\* Receiver::changed resolves: Ok on an unseen version, else Err once the sender is gone
ChangedReady(r) == cells[r.cell].version # r.version \/ cells[r.cell].closed
ChangedOk(r) == cells[r.cell].version # r.version

\* Receiver::borrow_and_update: the value read and the receiver afterwards
borrow_and_update(r) ==
    [value |-> cells[r.cell].value, rx |-> [r EXCEPT !.version = cells[r.cell].version]]

\* Drop of a Receiver
Receiver_drop(cs, r) == Live([cs EXCEPT ![r.cell].rxCount = @ - 1])

\* ------------------------------------------------------------ shard locks
\* presence_update keeps `watcher` (a Ref into watchers) until it returns
WatchersRefHeld == ppc \in {"send", "insert"}
\* ws_handler keeps `presence` (a Ref into cache) across the initial send
CacheRefHeld == \E s \in Sessions : pc[s] = "initsend"

Init ==
    /\ now = 0
    /\ ticks = 0
    /\ cache = EmptyMap
    /\ watchers = EmptyMap
    /\ cells = EmptyMap
    /\ connections = EmptyMap
    /\ pc = [s \in Sessions |-> "init"]
    /\ uid = [s \in Sessions |-> <<>>]
    /\ rx = [s \in Sessions |-> NoRx]
    /\ connGuard = {}
    /\ watcherGuard = {}
    /\ got = [s \in Sessions |-> 0]
    /\ pushed = [s \in Sessions |-> <<>>]
    /\ cause = [s \in Sessions |-> "none"]
    /\ ppc = "idle"
    /\ prec = NoRecord
    /\ events = 0
    /\ inserted = 0
    /\ gpc = "idle"
    /\ resp = [status |-> 0, seq |-> 0]
    /\ bg = 0
    /\ cpc = "build"
    /\ attempt = 0
    /\ backoff_secs = 0
    /\ streak = 0
    /\ redisClient = "unset"
    /\ memory = EmptyMap
    /\ remote = EmptyMap
    /\ hist = <<>>
    /\ ret = NoRet

\* ------------------------------------------------------------- ws_route
\* the on_upgrade closure up to the call of ws_handler, for the user id of the path
ws_route(s, user_id) ==
    /\ pc[s] \in {"init", "closed"}
    /\ uid' = [uid EXCEPT ![s] = user_id]
    /\ IF ~validate_user_id(user_id)
       THEN /\ pc' = [pc EXCEPT ![s] = "closed"]
            /\ cause' = [cause EXCEPT ![s] = "invalid"]
            /\ UNCHANGED <<connections, connGuard>>
       ELSE LET r == try_acquire_connection(connections, ClientIp)
            IN  /\ connections' = r.conns
                /\ IF r.guard
                   THEN /\ connGuard' = connGuard \cup {s}
                        /\ pc' = [pc EXCEPT ![s] = "subscribe"]
                        /\ cause' = [cause EXCEPT ![s] = "none"]
                   ELSE /\ pc' = [pc EXCEPT ![s] = "closed"]
                        /\ cause' = [cause EXCEPT ![s] = "refused"]
                        /\ UNCHANGED connGuard
    /\ UNCHANGED <<cache, watchers, cells, rx, watcherGuard, got, pushed>>
    /\ UNCHANGED <<pubVars, getVars, clockVars, bg, connVars, storeVars>>

\* a connection for one of the users the sessions are about
WsRoute(s) == \E user_id \in RequestIds : ws_route(s, user_id)

\* a connection whose path carries any of the sample identifiers
WsRouteSample(s) == \E user_id \in SampleIds : ws_route(s, user_id)

\* ------------------------------------------------------------ ws_handler
\* watchers.entry(user_id).or_insert_with(|| watch::channel(None).0).subscribe()
\* and the construction of the WatcherGuard
Subscribe(s) ==
    /\ pc[s] = "subscribe"
    /\ ~WatchersRefHeld
    /\ LET u == uid[s]
           c == IF Has(watchers, u) THEN watchers[u] ELSE FreshCell(cells)
           cs == IF Has(watchers, u) THEN cells ELSE Insert(cells, c, NewCell)
       IN  /\ watchers' = Insert(watchers, u, c)
           /\ cells' = [cs EXCEPT ![c].rxCount = @ + 1]
           /\ rx' = [rx EXCEPT ![s] = [cell |-> c, version |-> cs[c].version]]
    /\ watcherGuard' = watcherGuard \cup {s}
    /\ pc' = [pc EXCEPT ![s] = "initget"]
    /\ UNCHANGED <<cache, connections, uid, connGuard, got, pushed, cause>>
    /\ UNCHANGED <<pubVars, getVars, clockVars, bg, connVars, storeVars>>

\* state.cache.get(&user_id) && !is_presence_stale(&presence)
InitialGet(s) ==
    /\ pc[s] = "initget"
    /\ pc' = [pc EXCEPT ![s] =
                IF Has(cache, uid[s]) /\ ~is_presence_stale(cache[uid[s]])
                THEN "initsend" ELSE "loop"]
    /\ UNCHANGED <<cache, watchers, cells, connections, uid, rx, connGuard,
                   watcherGuard, got, pushed, cause>>
    /\ UNCHANGED <<pubVars, getVars, clockVars, bg, connVars, storeVars>>

\* let _ = ws_send_with_timeout(..).await, with `presence` still borrowed
InitialSend(s) ==
    /\ pc[s] = "initsend"
    /\ \E ok \in BOOLEAN :
        pushed' = [pushed EXCEPT ![s] = IF ok THEN Append(@, cache[uid[s]].seq) ELSE @]
    /\ pc' = [pc EXCEPT ![s] = "loop"]
    /\ UNCHANGED <<cache, watchers, cells, connections, uid, rx, connGuard,
                   watcherGuard, got, cause>>
    /\ UNCHANGED <<pubVars, getVars, clockVars, bg, connVars, storeVars>>

\* --------------------------------------------------------------- ws_loop
\* mutant: ws_handler returns without running WatcherGuard::drop
ExitLoop_without_watcher_guard(s, why) ==
    /\ pc' = [pc EXCEPT ![s] = "connrelease"]
    /\ cause' = [cause EXCEPT ![s] = why]
    /\ cells' = Receiver_drop(cells, rx[s])
    /\ rx' = [rx EXCEPT ![s] = NoRx]
    /\ got' = [got EXCEPT ![s] = 0]
    /\ pushed' = [pushed EXCEPT ![s] = <<>>]

\* `break`, the return of ws_loop and the drop of rx it owns; what the loop read
\* and sent ends with it
ExitLoop(s, why) ==
    /\ pc' = [pc EXCEPT ![s] = "guardcheck"]
    /\ cause' = [cause EXCEPT ![s] = why]
    /\ cells' = Receiver_drop(cells, rx[s])
    /\ rx' = [rx EXCEPT ![s] = NoRx]
    /\ got' = [got EXCEPT ![s] = 0]
    /\ pushed' = [pushed EXCEPT ![s] = <<>>]

\* ping_interval.tick()
PingTick(s) ==
    /\ pc[s] = "loop"
    /\ \E ok \in BOOLEAN :
        IF ok
        THEN UNCHANGED <<pc, cause, cells, rx, got, pushed>>
        ELSE ExitLoop(s, "ping_failed")
    /\ UNCHANGED <<cache, watchers, connections, uid, connGuard, watcherGuard>>
    /\ UNCHANGED <<pubVars, getVars, clockVars, bg, connVars, storeVars>>

\* ws_rx.next(); the result of the pong reply to a client ping is discarded
\* (`let _ =`), so both of its outcomes leave the session where it was
Incoming(s) ==
    /\ pc[s] = "loop"
    /\ \E msg \in WsMessages :
        CASE msg = "close" -> ExitLoop(s, "close")
          [] msg \in {"error", "end"} -> ExitLoop(s, "transport")
          [] OTHER -> UNCHANGED <<pc, cause, cells, rx, got, pushed>>
    /\ UNCHANGED <<cache, watchers, connections, uid, connGuard, watcherGuard>>
    /\ UNCHANGED <<pubVars, getVars, clockVars, bg, connVars, storeVars>>

\* rx.changed(), rx.borrow_and_update() and the push of the record
Changed(s) ==
    /\ pc[s] = "loop"
    /\ ChangedReady(rx[s])
    /\ IF ~ChangedOk(rx[s])
       THEN ExitLoop(s, "chan_closed")
       ELSE LET b == borrow_and_update(rx[s])
            IN  IF b.value # NoRecord /\ ~is_presence_stale(b.value)
                THEN \E ok \in BOOLEAN :
                         IF ok
                         THEN /\ pushed' = [pushed EXCEPT ![s] = Append(@, b.value.seq)]
                              /\ got' = [got EXCEPT ![s] = b.value.seq]
                              /\ rx' = [rx EXCEPT ![s] = b.rx]
                              /\ UNCHANGED <<pc, cause, cells>>
                         ELSE ExitLoop(s, "push_failed")
                ELSE /\ rx' = [rx EXCEPT ![s] = b.rx]
                     /\ got' = [got EXCEPT ![s] = b.value.seq]
                     /\ UNCHANGED <<pc, cause, cells, pushed>>
    /\ UNCHANGED <<cache, watchers, connections, uid, connGuard, watcherGuard>>
    /\ UNCHANGED <<pubVars, getVars, clockVars, bg, connVars, storeVars>>

\* ----------------------------------------------------- WatcherGuard::drop
\* self.watchers.get(&self.user_id) && watcher.receiver_count() == 0
WatcherGuardCheck(s) ==
    /\ pc[s] = "guardcheck"
    /\ IF Has(watchers, uid[s]) /\ cells[watchers[uid[s]]].rxCount = 0
       THEN /\ pc' = [pc EXCEPT ![s] = "wremove"]
            /\ UNCHANGED watcherGuard
       ELSE /\ pc' = [pc EXCEPT ![s] = "connrelease"]
            /\ watcherGuard' = watcherGuard \ {s}
    /\ UNCHANGED <<cache, watchers, cells, connections, uid, rx, connGuard, got,
                   pushed, cause>>
    /\ UNCHANGED <<pubVars, getVars, clockVars, bg, connVars, storeVars>>

\* self.watchers.remove(&self.user_id): the Sender stored there is dropped
WatchersRemove(s) ==
    /\ pc[s] = "wremove"
    /\ ~WatchersRefHeld
    /\ watchers' = Remove(watchers, uid[s])
    /\ cells' = IF Has(watchers, uid[s])
                THEN Live([cells EXCEPT ![watchers[uid[s]]].closed = TRUE])
                ELSE cells
    /\ pc' = [pc EXCEPT ![s] = "cremove"]
    /\ UNCHANGED <<cache, connections, uid, rx, connGuard, watcherGuard, got, pushed, cause>>
    /\ UNCHANGED <<pubVars, getVars, clockVars, bg, connVars, storeVars>>

\* self.cache.remove(&self.user_id)
CacheRemove(s) ==
    /\ pc[s] = "cremove"
    /\ ~CacheRefHeld
    /\ cache' = Remove(cache, uid[s])
    /\ watcherGuard' = watcherGuard \ {s}
    /\ pc' = [pc EXCEPT ![s] = "connrelease"]
    /\ UNCHANGED <<watchers, cells, connections, uid, rx, connGuard, got, pushed, cause>>
    /\ UNCHANGED <<pubVars, getVars, clockVars, bg, connVars, storeVars>>

\* the drop of _conn_guard when ws_handler returns
ConnRelease(s) ==
    /\ pc[s] = "connrelease"
    /\ connections' = ConnectionGuard_drop(connections, ClientIp)
    /\ connGuard' = connGuard \ {s}
    /\ pc' = [pc EXCEPT ![s] = "closed"]
    /\ UNCHANGED <<cache, watchers, cells, uid, rx, watcherGuard, got, pushed, cause>>
    /\ UNCHANGED <<pubVars, getVars, clockVars, bg, connVars, storeVars>>

\* ------------------------------------------------ Handler::presence_update
\* self.watchers.get(&user_id), returning when there is no entry
PubGet ==
    /\ ppc = "idle"
    /\ events < MaxEvents
    /\ events' = events + 1
    /\ ppc' = IF Has(watchers, PubUser) THEN "send" ELSE "idle"
    /\ UNCHANGED <<prec, inserted>>
    /\ UNCHANGED <<cache, watchers, cells, connections, sessionVars, getVars, clockVars, bg,
                   connVars, storeVars>>

\* the PresenceData is built and watcher.send(Some(presence.clone())) is called
PubSend ==
    /\ ppc = "send"
    /\ LET presence == [seq |-> events, ts |-> now]
           r == Sender_send(cells[watchers[PubUser]], presence)
       IN  /\ cells' = [cells EXCEPT ![watchers[PubUser]] = r.cell]
           /\ ppc' = IF r.ok THEN "insert" ELSE "idle"
           /\ prec' = IF r.ok THEN presence ELSE NoRecord
    /\ UNCHANGED <<events, inserted>>
    /\ UNCHANGED <<cache, watchers, connections, sessionVars, getVars, clockVars, bg,
                   connVars, storeVars>>

\* self.cache.insert(user_id, presence), then `watcher` goes out of scope
PubInsert ==
    /\ ppc = "insert"
    /\ ~CacheRefHeld
    /\ cache' = Insert(cache, PubUser, prec)
    /\ inserted' = prec.seq
    /\ ppc' = "idle"
    /\ prec' = NoRecord
    /\ UNCHANGED events
    /\ UNCHANGED <<watchers, cells, connections, sessionVars, getVars, clockVars, bg,
                   connVars, storeVars>>

\* ---------------------------------------------------- get_presence_handler
\* the response a GET /v1/{user_id} gives from the cache as it is now
GetStatus(user_id) ==
    IF ~validate_user_id(user_id) THEN [status |-> 400, seq |-> 0]
    ELSE IF Has(cache, user_id) /\ ~is_presence_stale(cache[user_id])
         THEN [status |-> 200, seq |-> cache[user_id].seq]
         ELSE [status |-> 404, seq |-> 0]

GetPresence ==
    /\ gpc = "idle"
    /\ \E user_id \in RequestIds :
        /\ resp' = GetStatus(user_id)
        /\ gpc' = IF validate_user_id(user_id) /\ Has(cache, user_id)
                     /\ is_presence_stale(cache[user_id])
                  THEN "evict" ELSE "idle"
    /\ UNCHANGED <<cache, watchers, cells, connections, sessionVars, pubVars, clockVars, bg,
                   connVars, storeVars>>

\* drop(presence); state.cache.remove(&user_id)
GetEvict ==
    /\ gpc = "evict"
    /\ ~CacheRefHeld
    /\ cache' = Remove(cache, PubUser)
    /\ gpc' = "idle"
    /\ UNCHANGED resp
    /\ UNCHANGED <<watchers, cells, connections, sessionVars, pubVars, clockVars, bg,
                   connVars, storeVars>>

\* ------------------------------------------------------------------ clock
Tick ==
    /\ ticks < MaxTicks
    /\ ticks' = ticks + 1
    /\ \E d \in TickSteps : now' = now + d
    /\ UNCHANGED <<cache, watchers, cells, connections, sessionVars, pubVars, getVars, bg,
                   connVars, storeVars>>

\* ------------------------------------- sessions of ClientIp on other users
\* try_acquire_connection by a connection that watches another user
BgAcquire ==
    /\ LET r == try_acquire_connection(connections, ClientIp)
       IN  /\ connections' = r.conns
           /\ bg' = IF r.guard THEN bg + 1 ELSE bg
    /\ UNCHANGED <<cache, watchers, cells, sessionVars, pubVars, getVars, clockVars,
                   connVars, storeVars>>

\* ConnectionGuard::drop of such a connection
BgRelease ==
    /\ bg > 0
    /\ connections' = ConnectionGuard_drop(connections, ClientIp)
    /\ bg' = bg - 1
    /\ UNCHANGED <<cache, watchers, cells, sessionVars, pubVars, getVars, clockVars,
                   connVars, storeVars>>

\* ---------------------------------------------------------- start_discord
\* Client::builder(&token, intents).event_handler(handler).await
ClientBuild ==
    /\ cpc = "build"
    /\ \E created \in BOOLEAN :
        IF created
        THEN /\ attempt' = 0
             /\ cpc' = "start"
             /\ UNCHANGED streak
        ELSE /\ streak < MaxFailures
             /\ streak' = streak + 1
             /\ cpc' = "backoff"
             /\ UNCHANGED attempt
    /\ UNCHANGED backoff_secs
    /\ UNCHANGED <<cache, watchers, cells, connections, sessionVars, pubVars, getVars,
                   clockVars, bg, storeVars>>

\* client.start().await returns: the client stopped, after a period of successful
\* connection or without ever having connected
ClientStart ==
    /\ cpc = "start"
    /\ \E connected \in BOOLEAN :
        IF connected
        THEN streak' = 1
        ELSE streak < MaxFailures /\ streak' = streak + 1
    /\ cpc' = "backoff"
    /\ UNCHANGED <<attempt, backoff_secs>>
    /\ UNCHANGED <<cache, watchers, cells, connections, sessionVars, pubVars, getVars,
                   clockVars, bg, storeVars>>

\* attempt = attempt.saturating_add(1) and the computation of backoff_secs
Backoff ==
    /\ cpc = "backoff"
    /\ attempt' = saturating_add_1(attempt)
    /\ backoff_secs' = backoff(attempt')
    /\ cpc' = "sleep"
    /\ UNCHANGED streak
    /\ UNCHANGED <<cache, watchers, cells, connections, sessionVars, pubVars, getVars,
                   clockVars, bg, storeVars>>

\* tokio::time::sleep(..).await is over and the loop starts again
Wake ==
    /\ cpc = "sleep"
    /\ cpc' = "build"
    /\ UNCHANGED <<attempt, backoff_secs, streak>>
    /\ UNCHANGED <<cache, watchers, cells, connections, sessionVars, pubVars, getVars,
                   clockVars, bg, storeVars>>

\* ------------------------------------------------------------------ Cache
\* the calls of Cache are made one after another; each is one step
\* init_redis: REDIS_CLIENT.get_or_init, giving None or Some(ConnectionManager)
init_redis ==
    /\ redisClient = "unset"
    /\ redisClient' \in {"none", "some"}
    /\ UNCHANGED <<memory, remote, hist, ret>>
    /\ UNCHANGED <<cache, watchers, cells, connections, sessionVars, pubVars, getVars,
                   clockVars, bg, connVars>>

\* get_redis(): REDIS_CLIENT.get()?.clone()
get_redis == redisClient = "some"

\* redis GET of a key: the value unless the key is missing or its expiry has passed
redis_get(key) ==
    IF Has(remote, key) /\ now < remote[key].exp
    THEN [some |-> TRUE, json |-> remote[key].json]
    ELSE [some |-> FALSE, json |-> <<>>]

\* self.memory.get(user_id).map(|r| r.clone())
memory_get(m, user_id) == IF Has(m, user_id) THEN m[user_id] ELSE NoRecord

\* Cache::get, with the remote call answering or failing
Cache_get_value(user_id, remote_ok) ==
    LET r == redis_get(Key(user_id))
    IN  IF get_redis /\ remote_ok /\ r.some /\ from_str(r.json).ok
        THEN from_str(r.json).data
        ELSE IF get_redis /\ remote_ok /\ ~r.some
             THEN NoRecord
             ELSE memory_get(memory, user_id)

Cache_get ==
    /\ \E user_id \in StoreUsers, remote_ok \in BOOLEAN :
        ret' = [user |-> user_id, value |-> Cache_get_value(user_id, remote_ok), at |-> now]
    /\ UNCHANGED <<redisClient, memory, remote, hist>>
    /\ UNCHANGED <<cache, watchers, cells, connections, sessionVars, pubVars, getVars,
                   clockVars, bg, connVars>>

\* Cache::set, with the remote SETEX succeeding or failing (its result is discarded)
Cache_set ==
    /\ Len(hist) < MaxOps
    /\ \E user_id \in StoreUsers, remote_ok \in BOOLEAN :
        LET data == [seq |-> Len(hist) + 1, ts |-> now]
        IN  /\ remote' = IF get_redis /\ remote_ok
                         THEN Insert(remote, Key(user_id),
                                     [json |-> to_string(data),
                                      exp |-> now + CACHE_TTL_SECS * 1000])
                         ELSE remote
            /\ memory' = Insert(memory, user_id, data)
            /\ hist' = Append(hist, [op |-> "set", user |-> user_id, data |-> data])
    /\ ret' = NoRet
    /\ UNCHANGED redisClient
    /\ UNCHANGED <<cache, watchers, cells, connections, sessionVars, pubVars, getVars,
                   clockVars, bg, connVars>>

\* Cache::remove, with the remote DEL succeeding or failing (its result is discarded)
Cache_remove ==
    /\ Len(hist) < MaxOps
    /\ \E user_id \in StoreUsers, remote_ok \in BOOLEAN :
        /\ remote' = IF get_redis /\ remote_ok THEN Remove(remote, Key(user_id)) ELSE remote
        /\ memory' = Remove(memory, user_id)
        /\ hist' = Append(hist, [op |-> "remove", user |-> user_id, data |-> NoRecord])
    /\ ret' = NoRet
    /\ UNCHANGED redisClient
    /\ UNCHANGED <<cache, watchers, cells, connections, sessionVars, pubVars, getVars,
                   clockVars, bg, connVars>>

SessionStep(s) ==
    \/ WsRoute(s)
    \/ Subscribe(s)
    \/ InitialGet(s)
    \/ InitialSend(s)
    \/ PingTick(s)
    \/ Incoming(s)
    \/ Changed(s)
    \/ WatcherGuardCheck(s)
    \/ WatchersRemove(s)
    \/ CacheRemove(s)
    \/ ConnRelease(s)

\* sessions on one user, the gateway handler and the clock
Next ==
    \/ \E s \in Sessions : SessionStep(s)
    \/ PubGet
    \/ PubSend
    \/ PubInsert
    \/ Tick

Spec == Init /\ [][Next]_vars

\* admission: the sessions and the gateway handler, with other connections of the same IP
NextAdm ==
    \/ \E s \in Sessions : SessionStep(s)
    \/ PubGet
    \/ PubSend
    \/ PubInsert
    \/ BgAcquire
    \/ BgRelease

SpecAdm == Init /\ [][NextAdm]_vars

\* the sessions and the gateway handler under the scheduling the runtime gives: a task
\* that can run does run (WF), and a task waiting for a shard write lock gets it once
\* the readers are gone (SF).  Client behaviour, new connections and upstream events
\* are not forced.
NextLive ==
    \/ \E s \in Sessions : SessionStep(s)
    \/ PubGet
    \/ PubSend
    \/ PubInsert

Fairness ==
    /\ \A s \in Sessions :
        /\ SF_vars(Subscribe(s))
        /\ WF_vars(InitialGet(s))
        /\ WF_vars(InitialSend(s))
        /\ WF_vars(Changed(s))
        /\ WF_vars(WatcherGuardCheck(s))
        /\ SF_vars(WatchersRemove(s))
        /\ SF_vars(CacheRemove(s))
        /\ WF_vars(ConnRelease(s))
    /\ WF_vars(PubSend)
    /\ SF_vars(PubInsert)

SpecLive == Init /\ [][NextLive]_vars /\ Fairness

\* the GET endpoint beside the sessions, the gateway handler and the clock
NextGet ==
    \/ Next
    \/ GetPresence
    \/ GetEvict

SpecGet == Init /\ [][NextGet]_vars

\* ws_route on the sample identifiers only
NextIds == \E s \in Sessions : WsRouteSample(s)

SpecIds == Init /\ [][NextIds]_vars

\* the gateway connector on its own
NextConn ==
    \/ ClientBuild
    \/ ClientStart
    \/ Backoff
    \/ Wake

SpecConn == Init /\ [][NextConn]_vars

\* the tiered store on its own, with the clock
NextStore ==
    \/ init_redis
    \/ Cache_get
    \/ Cache_set
    \/ Cache_remove
    \/ Tick

SpecStore == Init /\ [][NextStore]_vars

\* ======================================================================
\* Properties
\* ======================================================================
\* sessions of user u that hold a receiver: subscribes minus releases
Observers(u) == {s \in Sessions : rx[s] # NoRx /\ uid[s] = u}
\* no session is between the drop of its receiver and the end of WatcherGuard::drop
NoTeardown == \A s \in Sessions : pc[s] \notin {"guardcheck", "wremove", "cremove"}
\* no session is about to subscribe or inside WatcherGuard::drop
Settled == NoTeardown /\ \A s \in Sessions : pc[s] # "subscribe"
\* every session has ended and presence_update is not running
AllEnded == ppc = "idle" /\ \A s \in Sessions : pc[s] \in {"init", "closed"}

\* C1: release is atomic with respect to a concurrent subscribe: no session holds a
\* receiver of a channel whose Sender is not the one stored in watchers for its user
\* (a phantom cell), and outside of a teardown no Sender in watchers has zero
\* receivers (a leaked cell).
C1_ReleaseAtomic ==
    /\ \A s \in Sessions :
        rx[s] # NoRx => Has(watchers, uid[s]) /\ watchers[uid[s]] = rx[s].cell
    /\ NoTeardown => \A u \in DOMAIN watchers : cells[watchers[u]].rxCount > 0

\* C2: whenever no subscribe or teardown is in progress, the cell of the user exists
\* iff it has at least one observer; and once every session has ended neither the
\* cell nor the cache entry remains, so GET answers 404.
C2_CellIffObservers ==
    /\ Settled => (Has(watchers, PubUser) <=> Observers(PubUser) # {})
    /\ AllEnded =>
        /\ ~Has(watchers, PubUser)
        /\ ~Has(cache, PubUser)
        /\ GetStatus(PubUser).status = 404

\* the part of C2 about the state after the last teardown, on its own
C2_NothingRemains ==
    AllEnded => ~Has(watchers, PubUser) /\ ~Has(cache, PubUser)

\* the leaked-cell half of C1, on its own
C1_NoLeak ==
    NoTeardown => \A u \in DOMAIN watchers : cells[watchers[u]].rxCount > 0

\* C3: durability before visibility: a session is never woken with a record that the
\* presence cache has not yet been given (the record or a later one).
C3_DurabilityBeforeVisibility ==
    \A s \in Sessions : got[s] <= inserted

\* presence_update returns in this step (with or without a watcher)
EventHandled == ppc' = "idle" /\ (ppc # "idle" \/ events' # events)

\* C4: every upstream event is recorded in the presence cache, subscribed or not: when
\* presence_update returns, the cache holds the record of that event and GET answers
\* 200 with it.
C4_EventAlwaysRecorded ==
    [][EventHandled =>
        /\ Has(cache, PubUser)'
        /\ cache'[PubUser].seq = events'
        /\ GetStatus(PubUser)' = [status |-> 200, seq |-> events']]_vars

\* ConnectionGuards of ClientIp that have not been dropped
Held == Cardinality(connGuard) + bg

\* C5: the counter stored for the IP equals the number of un-released guards, which
\* never exceeds MAX_CONNECTIONS_PER_IP; the counter is never decremented below 1
\* without its entry being removed (no underflow).
C5_CounterMatchesGuards ==
    /\ Held <= MAX_CONNECTIONS_PER_IP
    /\ DOMAIN connections \subseteq {ClientIp}
    /\ IF Has(connections, ClientIp)
       THEN connections[ClientIp] = Held /\ connections[ClientIp] >= 1
       ELSE Held = 0

\* the IP is at its limit, one modelled session holds a slot and another was refused
C5_AtLimit ==
    /\ Has(connections, ClientIp)
    /\ connections[ClientIp] = MAX_CONNECTIONS_PER_IP
    /\ \E s, t \in Sessions :
        s \in connGuard /\ pc[t] = "closed" /\ cause[t] = "refused"

\* ws_route ends the connection of slot s in this step without calling ws_handler
RejectedStep(s) ==
    /\ pc[s] \in {"init", "closed"}
    /\ pc'[s] = "closed"
    /\ cause'[s] \in {"invalid", "refused"}
    /\ <<pc[s], uid[s], cause[s]>> # <<pc'[s], uid'[s], cause'[s]>>

\* C6: a rejected connection acquires nothing: neither an invalid user id nor a refusal
\* by try_acquire_connection changes the connections map, the watchers map, the
\* channels or the presence cache, and no guard or receiver is created.
C6_RejectedAcquiresNothing ==
    [][\A s \in Sessions :
        RejectedStep(s) =>
            UNCHANGED <<connections, watchers, cells, cache, connGuard, watcherGuard, rx>>]_vars

\* a connection was refused at the limit and another was rejected for its user id
C6_BothRejections ==
    /\ Has(connections, ClientIp)
    /\ connections[ClientIp] = MAX_CONNECTIONS_PER_IP
    /\ \E s, t \in Sessions :
        /\ pc[s] = "closed" /\ cause[s] = "refused" /\ validate_user_id(uid[s])
        /\ pc[t] = "closed" /\ cause[t] = "invalid" /\ ~validate_user_id(uid[t])

\* the counter of ClientIp, 0 when the map has no entry for it
Count(conns) == IF Has(conns, ClientIp) THEN conns[ClientIp] ELSE 0

\* C7: on every exit path the admission slot is released exactly once: a session that
\* has ended holds no guard, the drop of a guard lowers the counter by exactly one, no
\* entry with value 0 stays in the map, and with no guard left the map has no entry.
C7_SlotReleasedOnExit ==
    /\ [](/\ \A s \in Sessions : pc[s] = "closed" => s \notin connGuard
          /\ \A ip \in DOMAIN connections : connections[ip] >= 1
          /\ Held = 0 => connections = EmptyMap)
    /\ [][\A s \in Sessions :
            (s \in connGuard /\ s \notin connGuard') =>
                /\ pc[s] = "connrelease" /\ pc'[s] = "closed"
                /\ cause[s] \in {"close", "transport", "ping_failed", "push_failed",
                                 "chan_closed"}
                /\ Count(connections') = Count(connections) - 1]_vars

\* two sessions have ended on different exit paths and the map is empty again
C7_AllReleased ==
    /\ connections = EmptyMap
    /\ \E s, t \in Sessions :
        /\ pc[s] = "closed" /\ cause[s] = "push_failed"
        /\ pc[t] = "closed" /\ cause[t] = "chan_closed"

\* C8: when a session ends, the subscription is released first (receiver dropped,
\* WatcherGuard::drop run) and the admission guard second: the slot is never freed
\* while the receiver or the WatcherGuard is alive, a session that has ended holds
\* neither, and a session that has left its loop does end, whichever branch it left by.
C8_SubscriptionThenAdmission ==
    /\ [](\A s \in Sessions :
            /\ (rx[s] # NoRx \/ s \in watcherGuard) => s \in connGuard
            /\ pc[s] = "closed" =>
                rx[s] = NoRx /\ s \notin watcherGuard /\ s \notin connGuard)
    /\ \A s \in Sessions :
        (pc[s] \in {"guardcheck", "wremove", "cremove", "connrelease"})
            ~> (pc[s] = "closed")

\* a session whose WatcherGuard::drop removed the cell and the cache entry still holds
\* its admission slot
C8_BetweenReleases ==
    \E s \in Sessions :
        /\ pc[s] = "connrelease"
        /\ rx[s] = NoRx /\ s \notin watcherGuard /\ s \in connGuard
        /\ ~Has(watchers, uid[s])
        /\ inserted > 0 /\ ~Has(cache, uid[s])

\* slot s reads its receiver in this step and stays in the loop
ReadStep(s) == pc[s] = "loop" /\ rx'[s] # rx[s] /\ rx'[s] # NoRx

ClientCauses == {"close", "transport", "ping_failed", "push_failed"}

\* C10: a record sent while session s holds a receiver (so after its subscribe call)
\* is eventually pushed by s, it or a later one, unless a client close, a transport
\* error or a failed send ends the session.  (The clock stands still in SpecLive: no
\* record goes stale.)
C10_EventuallyPushed ==
    \A s \in Sessions : \A k \in 1..MaxEvents :
        (rx[s] # NoRx /\ ppc = "insert" /\ prec.seq = k)
            ~> (\/ \E i \in DOMAIN pushed[s] : pushed[s][i] >= k
                \/ cause[s] \in ClientCauses)

\* an outbound send of slot s fails or times out in this step
SendFailed(s) ==
    \/ pc[s] = "initsend" /\ pc'[s] # "initsend" /\ pushed'[s] = pushed[s]
    \/ pc[s] = "loop" /\ pc'[s] # "loop" /\ cause'[s] \in {"ping_failed", "push_failed"}

\* C11: every outbound send that fails or times out ends the session and starts the
\* cleanup a graceful close runs (drop of the receiver, then WatcherGuard::drop): this
\* covers the initial frame, the keep-alive ping and the push of a changed record.
C11_FailedSendEndsSession ==
    [][\A s \in Sessions :
        SendFailed(s) => pc'[s] = "guardcheck" /\ rx'[s] = NoRx]_vars

\* C17: a session leaves the streaming loop only because of a client close frame, an
\* inbound transport error or end of stream, or a failed or timed-out send; never
\* because rx.changed() resolved with a closed-channel error.
C17_OnlyClientCauses ==
    [][\A s \in Sessions :
        (pc[s] = "loop" /\ pc'[s] # "loop") => cause'[s] \in ClientCauses]_vars

\* C18: no session holds a shard lock while it is suspended in an outbound send, so a
\* writer of the presence cache never waits for a socket send: the cache insert of
\* presence_update, the cache remove of another session's teardown and the eviction of
\* GET can proceed whenever they are reached.
C18_SendHoldsNoLock ==
    /\ ppc = "insert" => ENABLED PubInsert
    /\ \A s \in Sessions : pc[s] = "cremove" => ENABLED CacheRemove(s)
    /\ gpc = "evict" => ENABLED GetEvict

\* C19: per-session monotonic delivery: the frames one session pushes (the initial frame
\* and then the frames read from its receiver) never go backwards in publish order.
C19_MonotonicDelivery ==
    \A s \in Sessions : \A i, j \in DOMAIN pushed[s] :
        i < j => pushed[s][i] <= pushed[s][j]

\* C20: a session pushes each published record at most once: the record sent as the
\* initial frame is not pushed again by the streaming loop.
C20_AtMostOnce ==
    \A s \in Sessions : \A i, j \in DOMAIN pushed[s] :
        i # j => pushed[s][i] # pushed[s][j]

\* the identifier grammar: ASCII digits only, 1 to 20 of them
Grammar(id) == Len(id) \in 1..20 /\ \A i \in 1..Len(id) : id[i] \in Digits

\* C13: validate_user_id accepts exactly the identifiers of the grammar (so not the
\* empty string): a connection gets past the validation in ws_route iff its id is in
\* the grammar, and a rejected connection has touched no admission slot.
C13_IdentifierGrammar ==
    /\ \A s \in Sessions :
        pc[s] # "init" => (cause[s] # "invalid" <=> Grammar(uid[s]))
    /\ (\A s \in Sessions : pc[s] = "init" \/ cause[s] = "invalid") =>
        connections = EmptyMap /\ connGuard = {}

\* the parts of C13 that hold: everything but the empty string is classified as the
\* grammar says, and a rejection leaves the connections map alone
C13_GrammarButEmpty ==
    /\ \A s \in Sessions :
        (pc[s] # "init" /\ uid[s] # <<>>) => (cause[s] # "invalid" <=> Grammar(uid[s]))
    /\ (\A s \in Sessions : pc[s] = "init" \/ cause[s] = "invalid") =>
        connections = EmptyMap /\ connGuard = {}

\* C14: the k-th consecutive connection failure with no period of successful
\* connection in between is followed by a sleep of min(2^k, 60) seconds, and the
\* reconnect loop is always at one of its four positions.
C14_BackoffSchedule ==
    /\ cpc \in {"build", "start", "backoff", "sleep"}
    /\ cpc = "sleep" => backoff_secs = Min(2 ^ streak, 60)

\* what does hold: the sleep is min(2^attempt, 60) for the `attempt` counter of the
\* code, which counts the failures since the last successful Client::builder
C14_BackoffOfAttempt ==
    cpc = "sleep" => attempt >= 1 /\ attempt <= streak /\ backoff_secs = Min(2 ^ attempt, 60)

\* a record whose age at time `at` is within the TTL (exactly the TTL is still fresh)
FreshAt(presence, at) == at - presence.ts <= PRESENCE_TTL_MS

\* slot s takes the rx.changed() branch of its loop in this step
ChangeStep(s) ==
    /\ pc[s] = "loop"
    /\ rx'[s] # rx[s]
    /\ rx'[s] # NoRx \/ cause'[s] \in {"push_failed", "chan_closed"}

\* the session part of C12: a stale cache entry gives no initial frame and a stale value
\* of the receiver gives no push, and in both cases the session goes on streaming
C12_SessionsSkipStale ==
    [][\A s \in Sessions :
        /\ (pc[s] = "initget" /\ pc'[s] # "initget") =>
            (pc'[s] = "initsend" <=>
                (Has(cache, uid[s]) /\ FreshAt(cache[uid[s]], now)))
        /\ (ChangeStep(s) /\ ChangedOk(rx[s])
                /\ ~FreshAt(cells[rx[s].cell].value, now)) =>
            (pc'[s] = "loop" /\ pushed'[s] = pushed[s])
        /\ (pc[s] = "loop" /\ Len(pushed'[s]) > Len(pushed[s])) =>
            FreshAt(cells[rx[s].cell].value, now)]_vars

\* the GET part of C12: 200 only with a fresh record, 404 for a stale entry, which the
\* handler then removes
C12_GetEvicts ==
    /\ [](gpc = "evict" => resp.status = 404)
    /\ [][/\ (resp'.status = 200 /\ resp' # resp) =>
                (Has(cache, PubUser) /\ FreshAt(cache[PubUser], now))
          /\ (gpc = "evict" /\ gpc' = "idle") => ~Has(cache', PubUser)]_vars

\* the store part of C12: Cache::get never returns a record that is stale when it
\* returns
C12_StoreHidesStale ==
    [](ret # NoRet /\ ret.value # NoRecord => FreshAt(ret.value, ret.at))

\* C12: a record is stale iff now - timestamp_ms > 300000, and no read path returns or
\* pushes a stale record: not GET (404 and eviction), not the session (no frame, no
\* end of the session), not Cache::get (None).
C12_NoStaleRead ==
    /\ C12_StoreHidesStale
    /\ C12_SessionsSkipStale
    /\ C12_GetEvicts

\* the memory-only store: what Cache does when REDIS_CLIENT holds None
MemApply(m, o) == IF o.op = "set" THEN Insert(m, o.user, o.data) ELSE Remove(m, o.user)
RECURSIVE MemRun(_)
MemRun(h) == IF h = <<>> THEN EmptyMap ELSE MemApply(MemRun(SubSeq(h, 1, Len(h) - 1)), h[Len(h)])

\* C15: the remote tier never changes what the store returns: every Cache::get returns
\* what a memory-only store returns after the same Cache::set and Cache::remove calls,
\* whatever the remote tier did.
C15_RemoteTierTransparent ==
    ret # NoRet => ret.value = memory_get(MemRun(hist), ret.user)

\* the same with REDIS_CLIENT not holding a connection (not configured, unreachable)
C15_TransparentWithoutRemote ==
    (ret # NoRet /\ redisClient # "some") => ret.value = memory_get(MemRun(hist), ret.user)

\* the writes made for user u, in order
WritesOf(u) == SelectSeq(hist, LAMBDA o : o.user = u)
\* the last two writes for u were set(u, r1) and set(u, r2)
TwoSets(u) ==
    LET w == WritesOf(u)
    IN  Len(w) >= 2 /\ w[Len(w)].op = "set" /\ w[Len(w) - 1].op = "set"

\* the presence-cache part of C16: cache.insert replaces the record of the user by the
\* new one
C16_PresenceCacheReplaces ==
    [][(ppc = "insert" /\ ppc' = "idle") =>
        (Has(cache', PubUser) /\ cache'[PubUser] = prec)]_vars

\* C16: last-write-wins: after set(u, r1) and set(u, r2) with no remove in between,
\* Cache::get(u) returns exactly r2; and cache.insert of presence_update leaves exactly
\* the new record for the user.
C16_LastWriteWins ==
    /\ [](ret # NoRet /\ TwoSets(ret.user) =>
            ret.value = WritesOf(ret.user)[Len(WritesOf(ret.user))].data)
    /\ C16_PresenceCacheReplaces

\* last-write-wins of Cache with REDIS_CLIENT not holding a connection
C16_LastWriteWinsInMemory ==
    (ret # NoRet /\ redisClient # "some" /\ TwoSets(ret.user)) =>
        ret.value = WritesOf(ret.user)[Len(WritesOf(ret.user))].data

====
